---- MODULE Spec2Model ----
(***************************************************************************)
(* AutoEQ-to-FIIO converter (src/autoeq_to_fiio.py).                       *)
(*                                                                         *)
(* Four functions of the script are modelled as state machines:            *)
(*   parse_eq_data            (SpecParse)                                  *)
(*   create_fiio_xml          (SpecXml)                                    *)
(*   fetch_parametric_eq_data (SpecFetch)                                  *)
(*   fetch_index              (SpecIndex)                                  *)
(*                                                                         *)
(* A Python str is a sequence of one-character strings, so that split,     *)
(* strip, float(), str(), the filter regex and the csv dialect sniffing    *)
(* are computed character by character as the interpreter computes them.   *)
(* A document (eq_content) is the sequence of its lines; the documents     *)
(* considered contain no blank line, no quote character and no exponent    *)
(* notation, and every number has few enough digits to be exact as a       *)
(* Python float.                                                           *)
(*                                                                         *)
(* Intermediate values are handed on as operator parameters, one helper    *)
(* per step of a computation, instead of being named in a LET.             *)
(***************************************************************************)
EXTENDS Integers, Sequences, FiniteSets

(***************************************************************************)
(* Characters and the str methods the script uses                          *)
(***************************************************************************)
UPPER == <<"A","B","C","D","E","F","G","H","I","J","K","L","M",
           "N","O","P","Q","R","S","T","U","V","W","X","Y","Z">>

LOWER == <<"a","b","c","d","e","f","g","h","i","j","k","l","m",
           "n","o","p","q","r","s","t","u","v","w","x","y","z">>

DIGITS == <<"0","1","2","3","4","5","6","7","8","9">>

Range(s) == {s[k] : k \in DOMAIN s}

UpperChars == Range(UPPER)

LowerChars == Range(LOWER)

DigitChars == Range(DIGITS)

IsAlphaChar(c) == c \in UpperChars \/ c \in LowerChars

IsDigitChar(c) == c \in DigitChars

\* str.isspace for the whitespace that occurs inside a line
IsSpaceChar(c) == c \in {" ", "\t"}

LowerChar(c) == IF c \in UpperChars THEN LOWER[CHOOSE k \in DOMAIN UPPER : UPPER[k] = c] ELSE c

UpperChar(c) == IF c \in LowerChars THEN UPPER[CHOOSE k \in DOMAIN LOWER : LOWER[k] = c] ELSE c

DigitVal(c) == (CHOOSE k \in DOMAIN DIGITS : DIGITS[k] = c) - 1

\* str.lower
Lower(s) == [k \in DOMAIN s |-> LowerChar(s[k])]

\* str.upper
Upper(s) == [k \in DOMAIN s |-> UpperChar(s[k])]

\* str.isalpha: non-empty and letters only
IsAlpha(s) == Len(s) > 0 /\ \A k \in DOMAIN s : IsAlphaChar(s[k])

\* str.isdigit: non-empty and digits only
IsDigit(s) == Len(s) > 0 /\ \A k \in DOMAIN s : IsDigitChar(s[k])

\* sub in s
Contains(s, sub) ==
    \E k \in 0..(Len(s) - Len(sub)) : \A j \in DOMAIN sub : s[k + j] = sub[j]

\* str.count(ch) for a one-character ch
Count(s, ch) == Cardinality({k \in DOMAIN s : s[k] = ch})

\* The position of the first ch in s, or 0
Find(s, ch) ==
    IF \A k \in DOMAIN s : s[k] # ch THEN 0
    ELSE CHOOSE k \in DOMAIN s : s[k] = ch /\ \A j \in 1..(k - 1) : s[j] # ch

\* str.lstrip
LStrip(s) ==
    SubSeq(s, CHOOSE k \in 1..(Len(s) + 1) :
                  /\ \A j \in 1..(k - 1) : IsSpaceChar(s[j])
                  /\ (k = Len(s) + 1 \/ ~IsSpaceChar(s[k])),
           Len(s))

\* str.rstrip
RStrip(s) ==
    SubSeq(s, 1, CHOOSE k \in 0..Len(s) :
                     /\ \A j \in (k + 1)..Len(s) : IsSpaceChar(s[j])
                     /\ (k = 0 \/ ~IsSpaceChar(s[k])))

\* str.strip
Strip(s) == RStrip(LStrip(s))

\* str.split(sep) for a one-character sep: always at least one field
RECURSIVE SplitAt(_, _, _)
SplitAt(s, sep, at) ==
    IF at = 0 THEN <<s>>
    ELSE <<SubSeq(s, 1, at - 1)>>
         \o SplitAt(SubSeq(s, at + 1, Len(s)), sep, Find(SubSeq(s, at + 1, Len(s)), sep))

Split(s, sep) == SplitAt(s, sep, Find(s, sep))

\* s without the character at position at (s itself when at = 0)
RemoveAt(s, at) ==
    IF at = 0 THEN s ELSE SubSeq(s, 1, at - 1) \o SubSeq(s, at + 1, Len(s))

\* str.replace(ch, '', 1): the first occurrence of ch removed
RemoveFirst(s, ch) == RemoveAt(s, Find(s, ch))

(***************************************************************************)
(* Numbers: float(), int(), str()                                          *)
(*                                                                         *)
(* A finite float is sign * m / 10^e in lowest terms of ten (e = 0 or m    *)
(* not a multiple of 10), which is the value Python holds for a decimal    *)
(* literal of at most 15 significant digits; inf and nan are kept apart.   *)
(* A conversion that raises yields the exception in the k field.           *)
(***************************************************************************)
RECURSIVE Pow10(_)
Pow10(n) == IF n = 0 THEN 1 ELSE 10 * Pow10(n - 1)

RECURSIVE DigitsVal(_)
DigitsVal(s) == IF Len(s) = 0 THEN 0
                ELSE 10 * DigitsVal(SubSeq(s, 1, Len(s) - 1)) + DigitVal(s[Len(s)])

RECURSIVE Fin(_, _, _)
Fin(neg, m, e) == IF e > 0 /\ m % 10 = 0 THEN Fin(neg, m \div 10, e - 1)
                  ELSE [k |-> "fin", neg |-> neg, m |-> m, e |-> e]

Inf(neg) == [k |-> "inf", neg |-> neg, m |-> 0, e |-> 0]

NaN == [k |-> "nan", neg |-> FALSE, m |-> 0, e |-> 0]

ValueError == [k |-> "ValueError", neg |-> FALSE, m |-> 0, e |-> 0]

OverflowError == [k |-> "OverflowError", neg |-> FALSE, m |-> 0, e |-> 0]

\* digits with at most one point and at least one digit
IsDecimal(body) ==
    /\ \A k \in DOMAIN body : IsDigitChar(body[k]) \/ body[k] = "."
    /\ \E k \in DOMAIN body : IsDigitChar(body[k])
    /\ Count(body, ".") <= 1

FloatDecimal(neg, parts) ==
    IF Len(parts) = 2
    THEN Fin(neg, DigitsVal(parts[1] \o parts[2]), Len(parts[2]))
    ELSE Fin(neg, DigitsVal(parts[1]), 0)

FloatWord(neg, body, low) ==
    IF low \in {<<"i","n","f">>, <<"i","n","f","i","n","i","t","y">>} THEN Inf(neg)
    ELSE IF low = <<"n","a","n">> THEN NaN
    ELSE IF IsDecimal(body) THEN FloatDecimal(neg, Split(body, "."))
    ELSE ValueError

FloatStripped(t) ==
    IF Len(t) > 0 /\ t[1] \in {"-", "+"}
    THEN FloatWord(t[1] = "-", Tail(t), Lower(Tail(t)))
    ELSE FloatWord(FALSE, t, Lower(t))

\* float(s): surrounding whitespace stripped, an optional sign, then
\* digits with at most one point, or inf / infinity / nan in any case.
\* Anything else raises ValueError.
Float(s) == FloatStripped(Strip(s))

Truncated(neg, n) == [k |-> "int", neg |-> neg /\ n # 0, m |-> n, e |-> 0]

\* int(x) for a float x: truncation toward zero; int(inf) raises
\* OverflowError and int(nan) raises ValueError.
IntOf(x) ==
    CASE x.k = "fin" -> Truncated(x.neg, x.m \div Pow10(x.e))
      [] x.k = "inf" -> OverflowError
      [] OTHER       -> ValueError

RECURSIVE NatStr(_)
NatStr(n) == IF n < 10 THEN <<DIGITS[n + 1]>>
             ELSE NatStr(n \div 10) \o <<DIGITS[(n % 10) + 1]>>

RECURSIVE ZeroPad(_, _)
ZeroPad(s, width) == IF Len(s) >= width THEN s ELSE ZeroPad(<<"0">> \o s, width)

Sign(neg) == IF neg THEN <<"-">> ELSE <<>>

\* str(n) for an int
StrInt(n) == Sign(n.neg) \o NatStr(n.m)

\* str(x) for a float: repr's shortest decimal, always with a point
StrFloat(x) ==
    CASE x.k = "inf" -> Sign(x.neg) \o <<"i","n","f">>
      [] x.k = "nan" -> <<"n","a","n">>
      [] x.k = "fin" /\ x.e = 0 -> Sign(x.neg) \o NatStr(x.m) \o <<".","0">>
      [] OTHER       -> Sign(x.neg) \o NatStr(x.m \div Pow10(x.e)) \o <<".">>
                        \o ZeroPad(NatStr(x.m % Pow10(x.e)), x.e)

(***************************************************************************)
(* Filter type registry (lines 24-35)                                      *)
(***************************************************************************)
S_Peaking == <<"P","e","a","k","i","n","g">>

S_LowShelf == <<"L","o","w"," ","S","h","e","l","f">>

S_HighShelf == <<"H","i","g","h"," ","S","h","e","l","f">>

\* What dict.get returns for a missing key
None == <<"N","o","n","e","!">>

FILTER_TYPE_MAP(name) ==
    CASE name = S_Peaking   -> <<"0">>
      [] name = S_LowShelf  -> <<"1">>
      [] name = S_HighShelf -> <<"2">>
      [] OTHER              -> None

TEXT_FORMAT_TYPE_MAP(abbr) ==
    CASE abbr = <<"L","S","C">> -> S_LowShelf
      [] abbr = <<"H","S","C">> -> S_HighShelf
      [] abbr = <<"P","K">>     -> S_Peaking
      [] OTHER                  -> None

(***************************************************************************)
(* TEXT_FILTER_REGEX.search(line) (lines 37-47), case-insensitive.         *)
(* The pattern is a sequence of pieces, each a literal or one or more      *)
(* characters of a class.  Every class is followed by a piece that cannot  *)
(* start inside it, so the greedy scan finds exactly the matches of the    *)
(* backtracking matcher.  A position of 0 means the match has failed.      *)
(***************************************************************************)
Lt(word) == [lit |-> word, class |-> ""]

Cl(class) == [lit |-> <<>>, class |-> class]

PATTERN ==
    << Lt(<<"F","i","l","t","e","r">>), Cl("\\s"), Cl("\\d"), Lt(<<":">>),   \* Filter\s+\d+:
       Cl("\\s"), Lt(<<"O","N">>),                                           \* \s+ON
       Cl("\\s"), Cl("\\w"),                                                 \* \s+(\w+)
       Cl("\\s"), Lt(<<"F","c">>), Cl("\\s"), Cl("[\\d.]"),                  \* \s+Fc\s+([\d.]+)
       Cl("\\s"), Lt(<<"H","z">>),                                           \* \s+Hz
       Cl("\\s"), Lt(<<"G","a","i","n">>), Cl("\\s"), Cl("[-\\d.]"),         \* \s+Gain\s+([-\d.]+)
       Cl("\\s"), Lt(<<"d","B">>),                                           \* \s+dB
       Cl("\\s"), Lt(<<"Q">>), Cl("\\s"), Cl("[\\d.]") >>                    \* \s+Q\s+([\d.]+)

InClass(class, c) ==
    CASE class = "\\s"      -> IsSpaceChar(c)
      [] class = "\\d"      -> IsDigitChar(c)
      [] class = "\\w"      -> IsAlphaChar(c) \/ IsDigitChar(c) \/ c = "_"
      [] class = "[\\d.]"   -> IsDigitChar(c) \/ c = "."
      [] class = "[-\\d.]"  -> IsDigitChar(c) \/ c = "." \/ c = "-"

\* A literal at position at: the position after it
Lit(s, at, word) ==
    IF at + Len(word) - 1 > Len(s) THEN 0
    ELSE IF \A j \in DOMAIN word : LowerChar(s[at + j - 1]) = LowerChar(word[j])
         THEN at + Len(word)
         ELSE 0

\* One or more characters of a class at position at, greedily: the position after them
Span1(s, at, class) ==
    IF at > Len(s) THEN 0
    ELSE IF ~InClass(class, s[at]) THEN 0
    ELSE CHOOSE j \in (at + 1)..(Len(s) + 1) :
             /\ \A k \in at..(j - 1) : InClass(class, s[k])
             /\ (j = Len(s) + 1 \/ ~InClass(class, s[j]))

PieceEnd(s, at, piece) ==
    IF piece.class = "" THEN Lit(s, at, piece.lit) ELSE Span1(s, at, piece.class)

\* The end positions of the pieces from the n-th on, cut at the first that fails
RECURSIVE MatchEnds(_, _, _)
RECURSIVE MatchNext(_, _, _)
MatchNext(s, n, end) ==
    IF end = 0 THEN <<0>> ELSE <<end>> \o MatchEnds(s, end, n + 1)

MatchEnds(s, at, n) ==
    IF n > Len(PATTERN) THEN <<>> ELSE MatchNext(s, n, PieceEnd(s, at, PATTERN[n]))

NoMatch == [matched |-> FALSE, type |-> <<>>, fc |-> <<>>, gain |-> <<>>, q |-> <<>>]

\* match.group(1..4): the 8th, 12th, 18th and 24th piece
Groups(s, ends) ==
    IF ends[Len(ends)] = 0 THEN NoMatch
    ELSE [matched |-> TRUE,
          type    |-> SubSeq(s, ends[7], ends[8] - 1),
          fc      |-> SubSeq(s, ends[11], ends[12] - 1),
          gain    |-> SubSeq(s, ends[17], ends[18] - 1),
          q       |-> SubSeq(s, ends[23], ends[24] - 1)]

FilterMatchAt(s, at) == Groups(s, MatchEnds(s, at, 1))

FirstMatch(s, starts) ==
    IF starts = {} THEN NoMatch
    ELSE FilterMatchAt(s, CHOOSE at \in starts : \A other \in starts : at <= other)

TEXT_FILTER_REGEX(line) ==
    FirstMatch(line, {at \in DOMAIN line : FilterMatchAt(line, at).matched})

(***************************************************************************)
(* Band construction shared by the text and the CSV path (lines 251-256    *)
(* and 306-311).  The dict literal converts freq, gain and q in that       *)
(* order and the first exception wins.                                     *)
(***************************************************************************)
Band(type, freq, gain, q) == [type |-> type, freq |-> freq, gain |-> gain, q |-> q]

NoBand == Band(<<>>, <<>>, <<>>, <<>>)

Skip == [k |-> "skip", band |-> NoBand]

Raise(e) == [k |-> e, band |-> NoBand]

\* int(float(freq_str))
IntFloat(f) == IF f.k = "ValueError" THEN ValueError ELSE IntOf(f)

BandOf(fiio_type, freq, gain, q) ==
    IF freq.k # "int" THEN Raise(freq.k)
    ELSE IF gain.k = "ValueError" \/ q.k = "ValueError" THEN Raise("ValueError")
    ELSE [k |-> "band", band |-> Band(fiio_type, StrInt(freq), StrFloat(gain), StrFloat(q))]

\* [k |-> "band" | "ValueError" | "OverflowError", band]
MakeBand(fiio_type, freq_str, gain_str, q_str) ==
    BandOf(fiio_type, IntFloat(Float(freq_str)), Float(gain_str), Float(q_str))

\* except ValueError: the band is skipped; any other exception escapes
ExceptValueError(made) == IF made.k = "ValueError" THEN Skip ELSE made

TextTyped(match, standard_type_name) ==
    IF standard_type_name = None THEN Skip
    ELSE IF FILTER_TYPE_MAP(standard_type_name) = None THEN Skip
    ELSE ExceptValueError(MakeBand(FILTER_TYPE_MAP(standard_type_name),
                                   match.fc, match.gain, match.q))

\* One iteration of the text loop on a matching line (lines 238-261)
TextLineBand(match) == TextTyped(match, TEXT_FORMAT_TYPE_MAP(Upper(match.type)))

\* lines 236-237: lines that do not match are passed over
TextMatched(match) == IF match.matched THEN TextLineBand(match) ELSE Skip

(***************************************************************************)
(* csv.Sniffer().sniff and csv.reader (lines 264-273), for a sample that   *)
(* holds no quote character and at most ten lines (one chunk of            *)
(* _guess_delimiter): a character is a candidate delimiter when it occurs  *)
(* the same positive number of times in every line.                        *)
(***************************************************************************)
\* The characters of the documents in code-point order
ASCII == <<"\t", " ", "%", ",", "-", ".", "/">> \o DIGITS \o <<":">> \o UPPER
         \o <<"_">> \o LOWER

Ord(c) == CHOOSE k \in DOMAIN ASCII : ASCII[k] = c

\* Sniffer.preferred
PREFERRED == <<",", "\t", ";", " ", ":">>

\* str.count(sub) for a two-character sub: occurrences that do not overlap
RECURSIVE CountPair(_, _, _)
CountPair(s, c1, c2) ==
    IF Len(s) < 2 THEN 0
    ELSE IF s[1] = c1 /\ s[2] = c2
         THEN 1 + CountPair(SubSeq(s, 3, Len(s)), c1, c2)
         ELSE CountPair(Tail(s), c1, c2)

Dialect(delimiter, skipinitialspace) ==
    [delimiter |-> delimiter, skipinitialspace |-> skipinitialspace]

\* The 'excel' dialect the script falls back to when sniffing fails
EXCEL == Dialect(",", FALSE)

\* The candidates of _guess_delimiter
Delims(data) ==
    {c \in UNION {Range(data[n]) : n \in DOMAIN data} :
        \A n \in DOMAIN data : Count(data[n], c) = Count(data[1], c)}

\* The candidate with the highest frequency, then the highest code point
Dominant(data, delims) ==
    CHOOSE c \in delims : \A d \in delims :
        \/ Count(data[1], d) < Count(data[1], c)
        \/ Count(data[1], d) = Count(data[1], c) /\ Ord(d) <= Ord(c)

Preferred(data, delims, pref) ==
    IF pref # {} THEN PREFERRED[CHOOSE k \in pref : \A j \in pref : k <= j]
    ELSE Dominant(data, delims)

Delimiter(data, delims) ==
    IF Cardinality(delims) = 1 THEN CHOOSE c \in delims : TRUE
    ELSE Preferred(data, delims, {k \in DOMAIN PREFERRED : PREFERRED[k] \in delims})

Sniffed(data, delim) == Dialect(delim, Count(data[1], delim) = CountPair(data[1], delim, " "))

SniffAmong(data, delims) ==
    IF delims = {} THEN EXCEL ELSE Sniffed(data, Delimiter(data, delims))

\* lines 266-272: the sniffed dialect, or 'excel' when sniffing raises csv.Error
Sniff(data) == SniffAmong(data, Delims(data))

\* The reader skips blanks at the start of a field under skipinitialspace
RECURSIVE SkipBlanks(_)
SkipBlanks(s) == IF Len(s) > 0 /\ s[1] = " " THEN SkipBlanks(Tail(s)) ELSE s

Fields(fields, dialect) ==
    [k \in DOMAIN fields |->
        IF dialect.skipinitialspace THEN SkipBlanks(fields[k]) ELSE fields[k]]

\* One row of csv.reader: the fields of a line
ReaderRow(line, dialect) ==
    IF Len(line) = 0 THEN <<>> ELSE Fields(Split(line, dialect.delimiter), dialect)

\* csv.reader(csvfile, dialect) as the sequence of rows it will yield
Reader(content, dialect) == [n \in DOMAIN content |-> ReaderRow(content[n], dialect)]

(***************************************************************************)
(* The CSV path (lines 274-318)                                            *)
(***************************************************************************)
expected_headers == << <<"F","i","l","t","e","r"," ","T","y","p","e">>,
                       <<"F","r","e","q">>, <<"Q">>, <<"G","a","i","n">> >>

\* lines 277-278
IsHeader(header) ==
    \/ \A h \in DOMAIN expected_headers :
          \E c \in DOMAIN header :
              Lower(Strip(expected_headers[h])) = Lower(Strip(header[c]))
    \/ \E c \in DOMAIN header : c <= 4 /\ IsAlpha(header[c])

\* lines 279-282: a first row that is no header is read again as data
AfterHeader(rows) == IF IsHeader(Head(rows)) THEN Tail(rows) ELSE rows

\* lines 294-311
CsvTyped(row, filter_type_name, fiio_type) ==
    IF fiio_type # None
    THEN ExceptValueError(MakeBand(fiio_type, Strip(row[2]), Strip(row[4]), Strip(row[3])))
    ELSE IF IsDigit(RemoveFirst(filter_type_name, ".")) /\ Len(row) >= 3
    THEN ExceptValueError(MakeBand(FILTER_TYPE_MAP(S_Peaking),
                                   Strip(row[1]), Strip(row[3]), Strip(row[2])))
    ELSE Skip

CsvNamed(row, filter_type_name) ==
    CsvTyped(row, filter_type_name, FILTER_TYPE_MAP(filter_type_name))

\* One iteration of the row loop (lines 288-318)
CsvRowBand(row) ==
    IF Len(row) < 4 THEN Skip ELSE CsvNamed(row, Strip(row[1]))

(***************************************************************************)
(* The documents parse_eq_data is run on: every sequence of at most        *)
(* MaxLines lines drawn from the lines below.                              *)
(***************************************************************************)
\* Filter 1: ON PK Fc 105 Hz Gain -2.5 dB Q 1.41
L_PK ==
    <<"F","i","l","t","e","r"," ","1",":"," ","O","N"," ","P","K"," ","F",
      "c"," ","1","0","5"," ","H","z"," ","G","a","i","n"," ","-","2",".",
      "5"," ","d","B"," ","Q"," ","1",".","4","1">>

\* Filter 2: ON LSC Fc 105.7 Hz Gain 3 dB Q 0.70
L_LSC ==
    <<"F","i","l","t","e","r"," ","2",":"," ","O","N"," ","L","S","C"," ",
      "F","c"," ","1","0","5",".","7"," ","H","z"," ","G","a","i","n"," ",
      "3"," ","d","B"," ","Q"," ","0",".","7","0">>

\* Filter 3: ON hsc Fc 10000 Hz Gain 0.5 dB Q 0.7
L_HSC ==
    <<"F","i","l","t","e","r"," ","3",":"," ","O","N"," ","h","s","c"," ",
      "F","c"," ","1","0","0","0","0"," ","H","z"," ","G","a","i","n"," ",
      "0",".","5"," ","d","B"," ","Q"," ","0",".","7">>

\* Filter 4: ON XX Fc 50 Hz Gain 1 dB Q 1
L_XX ==
    <<"F","i","l","t","e","r"," ","4",":"," ","O","N"," ","X","X"," ","F",
      "c"," ","5","0"," ","H","z"," ","G","a","i","n"," ","1"," ","d","B",
      " ","Q"," ","1">>

\* Filter 5: ON PK Fc 1.2.3 Hz Gain 1 dB Q 1
L_BADNUM ==
    <<"F","i","l","t","e","r"," ","5",":"," ","O","N"," ","P","K"," ","F",
      "c"," ","1",".","2",".","3"," ","H","z"," ","G","a","i","n"," ","1",
      " ","d","B"," ","Q"," ","1">>

\* Preamp: -6.0 dB
L_PREAMP ==
    <<"P","r","e","a","m","p",":"," ","-","6",".","0"," ","d","B">>

\* Preamp: -4.7<TAB>dB
L_PREAMP_TAB ==
    <<"P","r","e","a","m","p",":"," ","-","4",".","7","\t","d","B">>

\* preamp: n/a
L_PREAMP_NA ==
    <<"p","r","e","a","m","p",":"," ","n","/","a">>

\* Filter Type,Freq,Q,Gain
R_HEADER ==
    <<"F","i","l","t","e","r"," ","T","y","p","e",",","F","r","e","q",",",
      "Q",",","G","a","i","n">>

\* Peaking,100,0.7,-3.2
R_PEAKING ==
    <<"P","e","a","k","i","n","g",",","1","0","0",",","0",".","7",",","-",
      "3",".","2">>

\* Low Shelf,105.7,0.70,3
R_LOWSHELF ==
    <<"L","o","w"," ","S","h","e","l","f",",","1","0","5",".","7",",","0",
      ".","7","0",",","3">>

\* 100,0.7,-3.2
R_NUM3 ==
    <<"1","0","0",",","0",".","7",",","-","3",".","2">>

\* 100,0.7,-3.2,0
R_NUM4 ==
    <<"1","0","0",",","0",".","7",",","-","3",".","2",",","0">>

\* Peaking,inf,1,2
R_INF ==
    <<"P","e","a","k","i","n","g",",","i","n","f",",","1",",","2">>

\* Foo,1,2,3
R_FOO ==
    <<"F","o","o",",","1",",","2",",","3">>

LineAlphabet ==
    {L_PK, L_LSC, L_HSC, L_XX, L_BADNUM, L_PREAMP, L_PREAMP_TAB, L_PREAMP_NA,
     R_HEADER, R_PEAKING, R_LOWSHELF, R_NUM3, R_NUM4, R_INF, R_FOO}

MaxLines == 3

Documents == UNION {[1..n -> LineAlphabet] : n \in 0..MaxLines}

\* eq_content is None or a str
NoContent == [none |-> TRUE, doc |-> <<>>]

Content(doc) == [none |-> FALSE, doc |-> doc]

ParseInputs == {NoContent} \cup {Content(doc) : doc \in Documents}

(***************************************************************************)
(* parse_eq_data (lines 211-326)                                           *)
(***************************************************************************)
VARIABLES
    pc,             \* the function that runs and where it is
    i,              \* index of the line (parse_eq_data) or band (create_fiio_xml) the loop is at
    eq_bands,       \* the local eq_bands of parse_eq_data and of create_fiio_xml
    \* parse_eq_data
    eq_content,     \* the argument
    lines,          \* eq_content.strip().splitlines()
    preamp,
    preamp_found,
    is_text_format,
    reader,         \* the rows csv.reader has still to yield
    parse_result,   \* what the call returned or raised
    \* create_fiio_xml
    arg_bands,      \* the caller's band list
    preamp_value,
    dsp_model_name,
    style_name,
    usePreampGain,  \* the gain policy of spec 4.3 the caller has in mind; the
                    \* function has no parameter for it and never reads it
    master_gain,    \* text of <param name="masterGain">
    eq_list,        \* the <eq> elements of <eqList>, in document order
    xml_result,     \* the returned document
    \* fetch_parametric_eq_data
    headphone_path,
    selected_name,
    requests_sent,  \* the URLs requests.get was called with, in order
    response,       \* what the last requests.get gave
    fetch_result,
    \* fetch_index
    server,         \* the version of the index the server holds
    cache_dir,      \* os.path.exists(CACHE_DIR)
    index_file,     \* INDEX_CACHE_FILE
    etag_file,      \* ETAG_CACHE_FILE
    cached_etag,
    headers,        \* headers['If-None-Match'], None without it
    index_response, \* what the last requests.get(INDEX_URL) gave
    index_content,
    new_etag,
    index_result,   \* what the run returned
    runs            \* the runs of the script before this one

parse_vars == <<eq_content, lines, preamp, preamp_found, is_text_format, reader, parse_result>>

xml_vars == <<arg_bands, preamp_value, dsp_model_name, style_name, usePreampGain,
              master_gain, eq_list, xml_result>>

fetch_vars == <<headphone_path, selected_name, requests_sent, response, fetch_result>>

index_vars == <<server, cache_dir, index_file, etag_file, cached_etag, headers,
                index_response, index_content, new_etag, index_result, runs>>

vars == <<pc, i, eq_bands, parse_vars, xml_vars, fetch_vars, index_vars>>

Pending == [k |-> "pending", bands |-> <<>>, preamp |-> ValueError]

\* return None, None
Failure == [k |-> "failure", bands |-> <<>>, preamp |-> ValueError]

\* an exception escapes the call
Raised(e) == [k |-> e, bands |-> <<>>, preamp |-> ValueError]

\* return eq_bands, preamp
Success(bands, p) == [k |-> "success", bands |-> bands, preamp |-> p]

\* not eq_content (line 214)
Falsy(content) == content.none \/ content.doc = <<>>

\* eq_content.strip().splitlines() (line 218) on a document without blank lines
Lines(doc) ==
    [n \in DOMAIN doc |->
        IF n = 1 /\ n = Len(doc) THEN Strip(doc[n])
        ELSE IF n = 1 THEN LStrip(doc[n])
        ELSE IF n = Len(doc) THEN RStrip(doc[n])
        ELSE doc[n]]

\* "preamp:" in line.lower() (line 221)
HasPreamp(line) == Contains(Lower(line), <<"p","r","e","a","m","p",":">>)

\* float(line.split(":")[1].strip().split(" ")[0]) (lines 223-224)
PreampValue(line) == Float(Split(Strip(Split(line, ":")[2]), " ")[1])

\* lines 221-228: the value a line gives the preamp, ValueError when it gives none
PreampLineValue(found, line) ==
    IF ~found /\ HasPreamp(line) THEN PreampValue(line) ELSE ValueError

\* A detection that looks at the first line only
IsTextFormat_FirstLine(ls) == ls # <<>> /\ TEXT_FILTER_REGEX(ls[1]).matched

\* any(TEXT_FILTER_REGEX.search(line) for line in lines) (line 232)
IsTextFormat(ls) == \E n \in DOMAIN ls : TEXT_FILTER_REGEX(ls[n]).matched

\* An insertion at the front of the list
AppendBand_Prepend(bands, band) == <<band>> \o bands

\* eq_bands.append(band) (lines 257 and 312)
AppendBand(bands, band) == Append(bands, band)

\* A return without the check for an empty list
ReturnValue_EmptySuccess(bands, p) == Success(bands, p)

\* lines 322-326
ReturnValue(bands, p) == IF bands = <<>> THEN Failure ELSE Success(bands, p)

ParseIdle ==
    /\ eq_content = NoContent
    /\ lines = <<>>
    /\ preamp = Fin(FALSE, 0, 0)
    /\ preamp_found = FALSE
    /\ is_text_format = FALSE
    /\ reader = <<>>
    /\ parse_result = Pending

\* lines 214-219
ParseEnter ==
    /\ pc = "parse_eq_data"
    /\ IF Falsy(eq_content)
       THEN /\ parse_result' = Failure
            /\ pc' = "parse_returned"
            /\ UNCHANGED lines
       ELSE /\ lines' = Lines(eq_content.doc)
            /\ pc' = "preamp"
            /\ UNCHANGED parse_result
    /\ UNCHANGED <<eq_content, preamp, preamp_found, is_text_format, i, reader, eq_bands>>
    /\ UNCHANGED <<xml_vars, fetch_vars, index_vars>>

\* one iteration of the preamp loop (lines 220-228)
PreampLine ==
    /\ pc = "preamp"
    /\ i <= Len(lines)
    /\ \E value \in {PreampLineValue(preamp_found, lines[i])} :
          IF value.k # "ValueError"
          THEN preamp' = value /\ preamp_found' = TRUE
          ELSE UNCHANGED <<preamp, preamp_found>>
    /\ i' = i + 1
    /\ UNCHANGED <<pc, eq_content, lines, is_text_format, reader, eq_bands, parse_result>>
    /\ UNCHANGED <<xml_vars, fetch_vars, index_vars>>

\* format detection (lines 232-233)
DetectFormat ==
    /\ pc = "preamp"
    /\ i > Len(lines)
    /\ \E text \in {IsTextFormat(lines)} :
          /\ is_text_format' = text
          /\ pc' = IF text THEN "text" ELSE "csv"
    /\ i' = 1
    /\ UNCHANGED <<eq_content, lines, preamp, preamp_found, reader, eq_bands, parse_result>>
    /\ UNCHANGED <<xml_vars, fetch_vars, index_vars>>

\* What one iteration of either loop does with the band or the exception it got
LoopStep(got) ==
    CASE got.k = "band" -> /\ eq_bands' = AppendBand(eq_bands, got.band)
                           /\ UNCHANGED <<pc, parse_result>>
      [] got.k = "skip" -> UNCHANGED <<eq_bands, pc, parse_result>>
      [] OTHER          -> /\ pc' = "parse_raised"
                           /\ parse_result' = Raised(got.k)
                           /\ UNCHANGED eq_bands

\* one iteration of the text loop (lines 235-261)
TextLine ==
    /\ pc = "text"
    /\ i <= Len(lines)
    /\ \E got \in {TextMatched(TEXT_FILTER_REGEX(lines[i]))} : LoopStep(got)
    /\ i' = i + 1
    /\ UNCHANGED <<eq_content, lines, preamp, preamp_found, is_text_format, reader>>
    /\ UNCHANGED <<xml_vars, fetch_vars, index_vars>>

\* sniffing, the reader and the header row (lines 264-283).  eq_content is
\* not empty here, so next(reader) cannot raise StopIteration.
CsvHeader ==
    /\ pc = "csv"
    /\ reader' = AfterHeader(Reader(eq_content.doc, Sniff(eq_content.doc)))
    /\ pc' = "rows"
    /\ UNCHANGED <<eq_content, lines, preamp, preamp_found, is_text_format, i, eq_bands,
                   parse_result>>
    /\ UNCHANGED <<xml_vars, fetch_vars, index_vars>>

\* one iteration of the row loop (lines 287-318)
CsvRow ==
    /\ pc = "rows"
    /\ reader # <<>>
    /\ \E got \in {CsvRowBand(Head(reader))} : LoopStep(got)
    /\ reader' = Tail(reader)
    /\ UNCHANGED <<eq_content, lines, preamp, preamp_found, is_text_format, i>>
    /\ UNCHANGED <<xml_vars, fetch_vars, index_vars>>

\* lines 322-326
ParseReturn ==
    /\ IF is_text_format THEN pc = "text" /\ i > Len(lines)
                         ELSE pc = "rows" /\ reader = <<>>
    /\ parse_result' = ReturnValue(eq_bands, preamp)
    /\ pc' = "parse_returned"
    /\ UNCHANGED <<eq_content, lines, preamp, preamp_found, is_text_format, i, reader, eq_bands>>
    /\ UNCHANGED <<xml_vars, fetch_vars, index_vars>>

NextParse ==
    \/ ParseEnter
    \/ PreampLine
    \/ DetectFormat
    \/ TextLine
    \/ CsvHeader
    \/ CsvRow
    \/ ParseReturn

(***************************************************************************)
(* create_fiio_xml (lines 330-357).  The document is kept as the tree      *)
(* ElementTree builds; pretty-printing does not change it.                 *)
(***************************************************************************)
max_bands == 10

MaxBands == 12

DEFAULT_DSP_MODEL == "FIIO KA17"

\* The bands parse_eq_data makes of the three well-formed filter lines
BandPool == << TextMatched(TEXT_FILTER_REGEX(L_PK)).band,
               TextMatched(TEXT_FILTER_REGEX(L_LSC)).band,
               TextMatched(TEXT_FILTER_REGEX(L_HSC)).band >>

\* Band lists of every length up to MaxBands, neighbours always different
BandLists ==
    {[n \in 1..len |-> BandPool[((n + shift) % Len(BandPool)) + 1]] :
        len \in 0..MaxBands, shift \in 0..(Len(BandPool) - 1)}

PreampValues == {Fin(FALSE, 0, 0), Fin(TRUE, 47, 1), Fin(TRUE, 6, 0)}

NoText == <<>>

NoDocument == [model |-> "", version |-> "", masterGain |-> NoText, eqList |-> <<>>,
               styleName |-> "", description |-> ""]

\* A master gain that is always the literal 0
MasterGainText_Zero(value) == <<"0">>

\* master_gain.text = str(preamp_value) (line 338)
MasterGainText(value) == StrFloat(value)

\* A serializer that keeps every band
Truncate_None(bands) == bands

\* eq_bands[:max_bands] when there are more than max_bands (lines 341-343)
Truncate(bands) ==
    IF Len(bands) > max_bands THEN SubSeq(bands, 1, max_bands) ELSE bands

\* <eq index=str(i)> with one <param> per item of the band, in the dict's order (lines 345-348)
EqElement(n, band) ==
    [index  |-> NatStr(n),
     params |-> << <<"type", band.type>>, <<"freq", band.freq>>,
                   <<"gain", band.gain>>, <<"q", band.q>> >>]

\* lines 334-339 and 349-352
Document(model, gain, eqs, style) ==
    [model |-> model, version |-> "0.0.1", masterGain |-> gain, eqList |-> eqs,
     styleName |-> style, description |-> "Converted from AutoEq"]

XmlIdle ==
    /\ arg_bands = <<>>
    /\ preamp_value = Fin(FALSE, 0, 0)
    /\ dsp_model_name = ""
    /\ style_name = ""
    /\ usePreampGain = TRUE
    /\ master_gain = NoText
    /\ eq_list = <<>>
    /\ xml_result = NoDocument

\* lines 332-343
XmlEnter ==
    /\ pc = "create_fiio_xml"
    /\ master_gain' = MasterGainText(preamp_value)
    /\ eq_list' = <<>>
    /\ eq_bands' = Truncate(arg_bands)
    /\ i' = 0
    /\ pc' = "eq_loop"
    /\ UNCHANGED <<arg_bands, preamp_value, dsp_model_name, style_name, usePreampGain,
                   xml_result>>
    /\ UNCHANGED <<parse_vars, fetch_vars, index_vars>>

\* one iteration of the band loop (lines 344-348)
XmlBand ==
    /\ pc = "eq_loop"
    /\ i < Len(eq_bands)
    /\ eq_list' = Append(eq_list, EqElement(i, eq_bands[i + 1]))
    /\ i' = i + 1
    /\ UNCHANGED <<pc, eq_bands, arg_bands, preamp_value, dsp_model_name, style_name,
                   usePreampGain, master_gain, xml_result>>
    /\ UNCHANGED <<parse_vars, fetch_vars, index_vars>>

\* lines 349-357
XmlReturn ==
    /\ pc = "eq_loop"
    /\ i = Len(eq_bands)
    /\ xml_result' = Document(dsp_model_name, master_gain, eq_list, style_name)
    /\ pc' = "xml_returned"
    /\ UNCHANGED <<i, eq_bands, arg_bands, preamp_value, dsp_model_name, style_name,
                   usePreampGain, master_gain, eq_list>>
    /\ UNCHANGED <<parse_vars, fetch_vars, index_vars>>

NextXml ==
    \/ XmlEnter
    \/ XmlBand
    \/ XmlReturn

(***************************************************************************)
(* fetch_parametric_eq_data (lines 179-209)                                *)
(***************************************************************************)
BASE_RAW_URL == "https://raw.githubusercontent.com/jaakkopasanen/AutoEq/master/results/"

\* " ParametricEQ.txt", what follows the name in PARAMETRIC_EQ_FILENAME_TEMPLATE_TXT
TXT_SUFFIX == <<" ", "P", "a", "r", "a", "m", "e", "t", "r", "i", "c", "E", "Q", ".", "t", "x", "t">>

PARAMETRIC_EQ_FILENAME_TEMPLATE_TXT(name) == name \o TXT_SUFFIX

PARAMETRIC_EQ_FILENAME_CSV ==
    <<"P", "a", "r", "a", "m", "e", "t", "r", "i", "c", "E", "Q", ".", "c", "s", "v">>

\* The characters urllib.parse.quote leaves alone
IsSafeChar(c) == IsAlphaChar(c) \/ IsDigitChar(c) \/ c \in {"_", ".", "-", "~", "/"}

\* The %XX escape of the other characters of the alphabet
Escape(c) ==
    CASE c = " "  -> <<"%", "2", "0">>
      [] c = "\t" -> <<"%", "0", "9">>
      [] c = "%"  -> <<"%", "2", "5">>
      [] c = ","  -> <<"%", "2", "C">>
      [] c = ":"  -> <<"%", "3", "A">>

RECURSIVE Quote(_)
\* urllib.parse.quote(s)
Quote(s) ==
    IF s = <<>> THEN <<>>
    ELSE (IF IsSafeChar(Head(s)) THEN <<Head(s)>> ELSE Escape(Head(s))) \o Quote(Tail(s))

\* f"{BASE_RAW_URL}{headphone_path}{file}"
Url(path, file) == <<BASE_RAW_URL, path, file>>

UrlTxt(path, name) == Url(path, Quote(PARAMETRIC_EQ_FILENAME_TEMPLATE_TXT(name)))

UrlCsv(path) == Url(path, PARAMETRIC_EQ_FILENAME_CSV)

\* "HD 650"
N_HD650 == <<"H", "D", " ", "6", "5", "0">>

\* "K701"
N_K701 == <<"K", "7", "0", "1">>

\* "DT 770: 80"
N_DT770 == <<"D", "T", " ", "7", "7", "0", ":", " ", "8", "0">>

Names == {N_HD650, N_K701, N_DT770}

Paths == {"oratory1990/over-ear/", "Rtings/in-ear/"}

\* What requests.get followed by raise_for_status can give: a response
\* that passes, an HTTPError carrying the response's status, or another
\* RequestException raised before any response exists.
Ok(text) == [k |-> "ok", status_code |-> 200, text |-> text]

HTTPError(status) == [k |-> "HTTPError", status_code |-> status, text |-> ""]

RequestException(e) == [k |-> e, status_code |-> 0, text |-> ""]

NoResponse == [k |-> "none", status_code |-> 0, text |-> ""]

Responses ==
    {Ok(""), Ok("Preamp: -6.0 dB"), HTTPError(404), HTTPError(500),
     RequestException("Timeout"), RequestException("ConnectionError")}

NotFetched == [k |-> "pending", text |-> ""]

\* return response.text
Fetched(text) == [k |-> "text", text |-> text]

\* return None
FetchedNone == [k |-> "None", text |-> ""]

\* A fallback on any HTTP error status
IsNotFound_AnyStatus(r) == r.k = "HTTPError"

\* isinstance(e, HTTPError) and e.response.status_code == 404 (line 194)
IsNotFound(r) == r.k = "HTTPError" /\ r.status_code = 404

FetchIdle ==
    /\ headphone_path = ""
    /\ selected_name = <<>>
    /\ requests_sent = <<>>
    /\ response = NoResponse
    /\ fetch_result = NotFetched

\* lines 182-190: the request for the .txt file and what comes back
FetchTxt ==
    /\ pc = "fetch_parametric_eq_data"
    /\ requests_sent' = Append(requests_sent, UrlTxt(headphone_path, selected_name))
    /\ response' \in Responses
    /\ pc' = "txt_response"
    /\ UNCHANGED <<headphone_path, selected_name, fetch_result>>
    /\ UNCHANGED <<i, eq_bands, parse_vars, xml_vars, index_vars>>

\* lines 191-192
TxtOk ==
    /\ pc = "txt_response"
    /\ response.k = "ok"
    /\ fetch_result' = Fetched(response.text)
    /\ pc' = "fetched"
    /\ UNCHANGED <<headphone_path, selected_name, requests_sent, response>>
    /\ UNCHANGED <<i, eq_bands, parse_vars, xml_vars, index_vars>>

\* lines 193-199: a 404 for the .txt file, and the request for the .csv file
TxtNotFound ==
    /\ pc = "txt_response"
    /\ response.k # "ok"
    /\ IsNotFound(response)
    /\ requests_sent' = Append(requests_sent, UrlCsv(headphone_path))
    /\ response' \in Responses
    /\ pc' = "csv_response"
    /\ UNCHANGED <<headphone_path, selected_name, fetch_result>>
    /\ UNCHANGED <<i, eq_bands, parse_vars, xml_vars, index_vars>>

\* lines 193-194 and 207-209: any other failure of the .txt request
TxtError ==
    /\ pc = "txt_response"
    /\ response.k # "ok"
    /\ ~IsNotFound(response)
    /\ fetch_result' = FetchedNone
    /\ pc' = "fetched"
    /\ UNCHANGED <<headphone_path, selected_name, requests_sent, response>>
    /\ UNCHANGED <<i, eq_bands, parse_vars, xml_vars, index_vars>>

\* lines 200-201
CsvOk ==
    /\ pc = "csv_response"
    /\ response.k = "ok"
    /\ fetch_result' = Fetched(response.text)
    /\ pc' = "fetched"
    /\ UNCHANGED <<headphone_path, selected_name, requests_sent, response>>
    /\ UNCHANGED <<i, eq_bands, parse_vars, xml_vars, index_vars>>

\* lines 202-206
CsvError ==
    /\ pc = "csv_response"
    /\ response.k # "ok"
    /\ fetch_result' = FetchedNone
    /\ pc' = "fetched"
    /\ UNCHANGED <<headphone_path, selected_name, requests_sent, response>>
    /\ UNCHANGED <<i, eq_bands, parse_vars, xml_vars, index_vars>>

NextFetch ==
    \/ FetchTxt
    \/ TxtOk
    \/ TxtNotFound
    \/ TxtError
    \/ CsvOk
    \/ CsvError

(***************************************************************************)
(* fetch_index (lines 51-119), run again and again over the same cache     *)
(* directory while the server publishes new versions of the index.         *)
(***************************************************************************)
MaxRuns == 3

\* A version of INDEX.md on the server: its text and the ETag header served
\* with it (None when the server sends no ETag header with that version)
Version(content, etag) == [content |-> content, etag |-> etag]

Versions ==
    {Version(<<"v", "1">>, <<"E", "1">>),
     Version(<<"v", "2">>, <<"E", "2">>),
     Version(<<"v", "3">>, None)}

FirstVersion == Version(<<"v", "1">>, <<"E", "1">>)

\* A file of the cache directory
NoFile == [exists |-> FALSE, text |-> <<>>]

File(text) == [exists |-> TRUE, text |-> text]

\* What open(path, 'w') followed by write(text) can leave behind: the text,
\* the file as it was when open fails, or an empty file when the write
\* fails after open has truncated it.  ok tells whether IOError was raised.
WriteDone(text) == [ok |-> TRUE, file |-> File(text)]

OpenFailed(file) == [ok |-> FALSE, file |-> file]

WriteFailed == [ok |-> FALSE, file |-> File(<<>>)]

WriteOutcomes(file, text) == {WriteDone(text), OpenFailed(file), WriteFailed}

\* os.remove(path): the file is gone, or OSError and the file stays
RemoveOutcomes(file) == {[ok |-> TRUE, file |-> NoFile], [ok |-> FALSE, file |-> file]}

\* if s: for a str or None
Truthy(s) == s # None /\ s # <<>>

\* What requests.get can give: a response, or a RequestException
IndexResponse(status, text, etag) ==
    [k |-> "response", status_code |-> status, text |-> text, etag |-> etag]

IndexException == [k |-> "Timeout", status_code |-> 0, text |-> <<>>, etag |-> None]

NoIndexResponse == [k |-> "none", status_code |-> 0, text |-> <<>>, etag |-> None]

\* The answer of a server holding version v to a request whose
\* If-None-Match header is match (None without the header)
Served(v, match) ==
    IF match # None /\ match = v.etag
    THEN IndexResponse(304, <<>>, v.etag)
    ELSE IndexResponse(200, v.content, v.etag)

\* requests.get(INDEX_URL, headers=headers, timeout=30)
Answers(v, match) == {Served(v, match), IndexResponse(500, <<>>, None), IndexException}

\* raise_for_status raises HTTPError for a 4xx or 5xx status
RaisesForStatus(r) == r.status_code >= 400

\* What fetch_index returned and where: at line 81 (cache, after a 304),
\* line 104 (fetched), line 113 (cache, as fallback) or lines 116, 119 (None)
NotReturned == [k |-> "pending", text |-> <<>>]

Returned(where, text) == [k |-> where, text |-> text]

IndexIdle ==
    /\ server = FirstVersion
    /\ cache_dir = FALSE
    /\ index_file = NoFile
    /\ etag_file = NoFile
    /\ cached_etag = None
    /\ headers = None
    /\ index_response = NoIndexResponse
    /\ index_content = <<>>
    /\ new_etag = None
    /\ index_result = NotReturned
    /\ runs = 0

\* The server publishes another version between two runs
ServerPublishes ==
    /\ pc = "fetch_index"
    /\ server' \in Versions \ {server}
    /\ UNCHANGED <<pc, cache_dir, index_file, etag_file, cached_etag, headers,
                   index_response, index_content, new_etag, index_result, runs>>
    /\ UNCHANGED <<i, eq_bands, parse_vars, xml_vars, fetch_vars>>

\* lines 54-60: os.makedirs(CACHE_DIR, exist_ok=True) creates the directory or fails
IndexEnter ==
    /\ pc = "fetch_index"
    /\ cached_etag' = None
    /\ headers' = None
    /\ IF cache_dir THEN UNCHANGED cache_dir ELSE cache_dir' \in BOOLEAN
    /\ pc' = "read_etag"
    /\ UNCHANGED <<server, index_file, etag_file, index_response, index_content, new_etag,
                   index_result, runs>>
    /\ UNCHANGED <<i, eq_bands, parse_vars, xml_vars, fetch_vars>>

\* lines 61-68: the ETag file is read
IndexReadEtag ==
    /\ pc = "read_etag"
    /\ cache_dir
    /\ etag_file.exists
    /\ cached_etag' = Strip(etag_file.text)
    /\ headers' = IF Truthy(Strip(etag_file.text)) THEN Strip(etag_file.text) ELSE None
    /\ pc' = "request"
    /\ UNCHANGED <<server, cache_dir, index_file, etag_file, index_response, index_content,
                   new_etag, index_result, runs>>
    /\ UNCHANGED <<i, eq_bands, parse_vars, xml_vars, fetch_vars>>

\* lines 61-63 and 69-71: no directory, no ETag file, or IOError reading it
IndexNoEtag ==
    /\ pc = "read_etag"
    /\ cached_etag' = None
    /\ pc' = "request"
    /\ UNCHANGED <<server, cache_dir, index_file, etag_file, headers, index_response,
                   index_content, new_etag, index_result, runs>>
    /\ UNCHANGED <<i, eq_bands, parse_vars, xml_vars, fetch_vars>>

\* line 73
IndexRequest ==
    /\ pc = "request"
    /\ index_response' \in Answers(server, headers)
    /\ pc' = "index_response"
    /\ UNCHANGED <<server, cache_dir, index_file, etag_file, cached_etag, headers,
                   index_content, new_etag, index_result, runs>>
    /\ UNCHANGED <<i, eq_bands, parse_vars, xml_vars, fetch_vars>>

\* lines 74-81: 304 and the cached index is read
IndexNotModified ==
    /\ pc = "index_response"
    /\ index_response.k = "response"
    /\ index_response.status_code = 304
    /\ index_file.exists
    /\ index_content' = index_file.text
    /\ index_result' = Returned("cached", index_file.text)
    /\ pc' = "index_returned"
    /\ UNCHANGED <<server, cache_dir, index_file, etag_file, cached_etag, headers,
                   index_response, new_etag, runs>>
    /\ UNCHANGED <<i, eq_bands, parse_vars, xml_vars, fetch_vars>>

\* lines 74-77 and 82-86: 304, IOError reading the cached index (it is
\* missing or unreadable), and the request without If-None-Match
IndexRefetch ==
    /\ pc = "index_response"
    /\ index_response.k = "response"
    /\ index_response.status_code = 304
    /\ index_response' \in Answers(server, None)
    /\ pc' = "second_response"
    /\ UNCHANGED <<server, cache_dir, index_file, etag_file, cached_etag, headers,
                   index_content, new_etag, index_result, runs>>
    /\ UNCHANGED <<i, eq_bands, parse_vars, xml_vars, fetch_vars>>

\* lines 88-91 (and 87 after a second request): the status is good
IndexFetched ==
    /\ pc \in {"index_response", "second_response"}
    /\ index_response.k = "response"
    /\ index_response.status_code # 304
    /\ ~RaisesForStatus(index_response)
    /\ index_content' = index_response.text
    /\ new_etag' = index_response.etag
    /\ pc' = IF cache_dir THEN "write_index" ELSE "return"
    /\ UNCHANGED <<server, cache_dir, index_file, etag_file, cached_etag, headers,
                   index_response, index_result, runs>>
    /\ UNCHANGED <<i, eq_bands, parse_vars, xml_vars, fetch_vars>>

\* lines 93-94 and 102-103: the index is written, or IOError
IndexWriteIndex ==
    /\ pc = "write_index"
    /\ \E out \in WriteOutcomes(index_file, index_content) :
          /\ index_file' = out.file
          /\ pc' = IF ~out.ok THEN "return"
                   ELSE IF Truthy(new_etag) THEN "write_etag"
                   ELSE IF etag_file.exists THEN "remove_etag"
                   ELSE "return"
    /\ UNCHANGED <<server, cache_dir, etag_file, cached_etag, headers, index_response,
                   index_content, new_etag, index_result, runs>>
    /\ UNCHANGED <<i, eq_bands, parse_vars, xml_vars, fetch_vars>>

\* lines 96-98 and 102-103: the ETag is written, or IOError
IndexWriteEtag ==
    /\ pc = "write_etag"
    /\ \E out \in WriteOutcomes(etag_file, new_etag) : etag_file' = out.file
    /\ pc' = "return"
    /\ UNCHANGED <<server, cache_dir, index_file, cached_etag, headers, index_response,
                   index_content, new_etag, index_result, runs>>
    /\ UNCHANGED <<i, eq_bands, parse_vars, xml_vars, fetch_vars>>

\* lines 100-103: no ETag came, the ETag file is removed, or OSError
IndexRemoveEtag ==
    /\ pc = "remove_etag"
    /\ \E out \in RemoveOutcomes(etag_file) : etag_file' = out.file
    /\ pc' = "return"
    /\ UNCHANGED <<server, cache_dir, index_file, cached_etag, headers, index_response,
                   index_content, new_etag, index_result, runs>>
    /\ UNCHANGED <<i, eq_bands, parse_vars, xml_vars, fetch_vars>>

\* line 104
IndexReturn ==
    /\ pc = "return"
    /\ index_result' = Returned("fetched", index_content)
    /\ pc' = "index_returned"
    /\ UNCHANGED <<server, cache_dir, index_file, etag_file, cached_etag, headers,
                   index_response, index_content, new_etag, runs>>
    /\ UNCHANGED <<i, eq_bands, parse_vars, xml_vars, fetch_vars>>

\* lines 105-113: a RequestException, and the cached index is read
IndexFallback ==
    /\ pc \in {"index_response", "second_response"}
    /\ index_response.k # "response" \/ RaisesForStatus(index_response)
    /\ index_file.exists
    /\ index_content' = index_file.text
    /\ index_result' = Returned("fallback", index_file.text)
    /\ pc' = "index_returned"
    /\ UNCHANGED <<server, cache_dir, index_file, etag_file, cached_etag, headers,
                   index_response, new_etag, runs>>
    /\ UNCHANGED <<i, eq_bands, parse_vars, xml_vars, fetch_vars>>

\* lines 105-108 and 114-119: a RequestException, and the cached index is
\* missing or IOError reading it
IndexFailed ==
    /\ pc \in {"index_response", "second_response"}
    /\ index_response.k # "response" \/ RaisesForStatus(index_response)
    /\ index_result' = Returned("None", <<>>)
    /\ pc' = "index_returned"
    /\ UNCHANGED <<server, cache_dir, index_file, etag_file, cached_etag, headers,
                   index_response, index_content, new_etag, runs>>
    /\ UNCHANGED <<i, eq_bands, parse_vars, xml_vars, fetch_vars>>

\* The script is run once more
IndexAgain ==
    /\ pc = "index_returned"
    /\ runs < MaxRuns
    /\ runs' = runs + 1
    /\ pc' = "fetch_index"
    /\ cached_etag' = None
    /\ headers' = None
    /\ index_response' = NoIndexResponse
    /\ index_content' = <<>>
    /\ new_etag' = None
    /\ index_result' = NotReturned
    /\ UNCHANGED <<server, cache_dir, index_file, etag_file>>
    /\ UNCHANGED <<i, eq_bands, parse_vars, xml_vars, fetch_vars>>

NextIndex ==
    \/ ServerPublishes
    \/ IndexEnter
    \/ IndexReadEtag
    \/ IndexNoEtag
    \/ IndexRequest
    \/ IndexNotModified
    \/ IndexRefetch
    \/ IndexFetched
    \/ IndexWriteIndex
    \/ IndexWriteEtag
    \/ IndexRemoveEtag
    \/ IndexReturn
    \/ IndexFallback
    \/ IndexFailed
    \/ IndexAgain

(***************************************************************************)
(* The four functions, each called with any of its inputs                  *)
(***************************************************************************)
InitParse ==
    /\ pc = "parse_eq_data"
    /\ eq_content \in ParseInputs
    /\ lines = <<>>
    /\ preamp = Fin(FALSE, 0, 0)
    /\ preamp_found = FALSE
    /\ is_text_format = FALSE
    /\ i = 1
    /\ reader = <<>>
    /\ eq_bands = <<>>
    /\ parse_result = Pending
    /\ XmlIdle
    /\ FetchIdle
    /\ IndexIdle

InitXml ==
    /\ pc = "create_fiio_xml"
    /\ arg_bands \in BandLists
    /\ preamp_value \in PreampValues
    /\ dsp_model_name = DEFAULT_DSP_MODEL
    /\ style_name = "HD 650"
    /\ usePreampGain \in BOOLEAN
    /\ master_gain = NoText
    /\ eq_list = <<>>
    /\ xml_result = NoDocument
    /\ eq_bands = arg_bands
    /\ i = 0
    /\ ParseIdle
    /\ FetchIdle
    /\ IndexIdle

InitFetch ==
    /\ pc = "fetch_parametric_eq_data"
    /\ headphone_path \in Paths
    /\ selected_name \in Names
    /\ requests_sent = <<>>
    /\ response = NoResponse
    /\ fetch_result = NotFetched
    /\ i = 0
    /\ eq_bands = <<>>
    /\ ParseIdle
    /\ XmlIdle
    /\ IndexIdle

\* The first run, over an empty cache
InitIndex ==
    /\ pc = "fetch_index"
    /\ server \in Versions
    /\ cache_dir = FALSE
    /\ index_file = NoFile
    /\ etag_file = NoFile
    /\ cached_etag = None
    /\ headers = None
    /\ index_response = NoIndexResponse
    /\ index_content = <<>>
    /\ new_etag = None
    /\ index_result = NotReturned
    /\ runs = 0
    /\ i = 0
    /\ eq_bands = <<>>
    /\ ParseIdle
    /\ XmlIdle
    /\ FetchIdle

SpecParse == InitParse /\ [][NextParse]_vars

SpecXml == InitXml /\ [][NextXml]_vars

SpecFetch == InitFetch /\ [][NextFetch]_vars

SpecIndex == InitIndex /\ [][NextIndex]_vars

Init == InitParse \/ InitXml \/ InitFetch \/ InitIndex

Next == NextParse \/ NextXml \/ NextFetch \/ NextIndex

Spec == Init /\ [][Next]_vars

(***************************************************************************)
(* What the specification says of parse_eq_data, stated over the lines of  *)
(* the alphabet without using the model of the parser.                     *)
(***************************************************************************)
\* The lines of the alphabet TEXT_FILTER_REGEX matches
FilterLines == {L_PK, L_LSC, L_HSC, L_XX, L_BADNUM}

\* Those of them with a known type and numbers that convert
WellFormedLines == {L_PK, L_LSC, L_HSC}

\* Type code, truncated frequency, and gain and Q as written in the line
Written(line) ==
    CASE line = L_PK  -> [type |-> <<"0">>, freq |-> <<"1", "0", "5">>, gain |-> <<"-", "2", ".", "5">>, q |-> <<"1", ".", "4", "1">>]
      [] line = L_LSC -> [type |-> <<"1">>, freq |-> <<"1", "0", "5">>, gain |-> <<"3">>, q |-> <<"0", ".", "7", "0">>]
      [] line = L_HSC -> [type |-> <<"2">>, freq |-> <<"1", "0", "0", "0", "0">>, gain |-> <<"0", ".", "5">>, q |-> <<"0", ".", "7">>]

\* The same type and frequency, and the same numbers for gain and Q
SameBand(band, written) ==
    /\ band.type = written.type
    /\ band.freq = written.freq
    /\ Float(band.gain) = Float(written.gain)
    /\ Float(band.q) = Float(written.q)

IsWellFormedLine(line) == line \in WellFormedLines

IsFilterLine(line) == line \in FilterLines

HasOnlyLines(doc, allowed) == \A n \in DOMAIN doc : doc[n] \in allowed

\* The bands are those of the well-formed filter lines of the document, in its order
BandsOfWellFormedLines(bands, doc) ==
    /\ Len(bands) = Len(SelectSeq(doc, IsWellFormedLine))
    /\ \A n \in DOMAIN bands : SameBand(bands[n], Written(SelectSeq(doc, IsWellFormedLine)[n]))

\* C1: a text-format document with k well-formed filter lines and no
\* malformed filter line parses, without an exception, to exactly k bands,
\* the n-th band being that of the n-th filter line: its type code, its
\* frequency truncated to an integer, its gain and Q as written.
C1_TextBandsInSourceOrder ==
    (/\ ~eq_content.none
     /\ HasOnlyLines(eq_content.doc, LineAlphabet \ {L_XX, L_BADNUM})
     /\ \E n \in DOMAIN eq_content.doc : IsWellFormedLine(eq_content.doc[n]))
    => /\ pc # "parse_raised"
       /\ pc = "parse_returned"
            => /\ parse_result.k = "success"
               /\ BandsOfWellFormedLines(parse_result.bands, eq_content.doc)

C1_Witness ==
    /\ pc = "parse_returned"
    /\ eq_content = Content(<<L_HSC, L_PREAMP, L_PK>>)
    /\ parse_result.k = "success"
    /\ Len(parse_result.bands) = 2
    /\ parse_result.bands[1].type = <<"2">>
    /\ parse_result.bands[2].freq = <<"1", "0", "5">>

\* C2: a call that returns reports the failure (no bands, no preamp) when
\* its input is empty or None and whenever no band survived parsing, as for
\* a CSV holding only a header; a successful result never has an empty band
\* list.
C2_NoEmptySuccess ==
    pc = "parse_returned"
    => /\ parse_result.k \in {"failure", "success"}
       /\ parse_result.k = "success" => parse_result.bands # <<>>
       /\ parse_result.k = "failure" <=> (Falsy(eq_content) \/ eq_bands = <<>>)
       /\ parse_result.k = "failure" => parse_result = Failure
       /\ parse_result.k = "success" => parse_result.bands = eq_bands

C2_Witness ==
    /\ pc = "parse_returned"
    /\ eq_content = Content(<<R_HEADER>>)
    /\ eq_bands = <<>>
    /\ parse_result = Failure

\* C3: no malformed filter line or CSV row makes parse_eq_data raise.
C3_NeverRaises == pc # "parse_raised"

C3_Witness ==
    /\ pc = "parse_raised"
    /\ eq_content = Content(<<R_HEADER, R_INF>>)
    /\ parse_result = Raised("OverflowError")

\* C6: the format is decided once for the whole document.  A document with
\* a line matching the text-filter pattern is parsed as text: the CSV reader
\* is never used and the bands are those of its well-formed filter lines
\* only, none at all when every matching line is skipped.  Only a document
\* without a matching line is parsed as CSV.
C6_WholeDocumentDecision ==
    /\ pc \in {"text", "csv", "rows"}
         => (is_text_format <=> \E n \in DOMAIN eq_content.doc : IsFilterLine(eq_content.doc[n]))
    /\ pc = "text" => is_text_format
    /\ pc \in {"csv", "rows"} => ~is_text_format
    /\ is_text_format => reader = <<>>
    /\ (pc = "parse_returned" /\ is_text_format)
         => /\ BandsOfWellFormedLines(eq_bands, eq_content.doc)
            /\ parse_result = ReturnValue(eq_bands, preamp)

C6_Witness ==
    /\ pc = "parse_returned"
    /\ eq_content = Content(<<R_PEAKING, L_XX, R_NUM4>>)
    /\ is_text_format
    /\ parse_result = Failure

\* The rows of the alphabet with a shape name in column 0 and numbers after it
DataRows == {R_PEAKING, R_LOWSHELF}

\* C7: in a CSV document of well-formed data rows that starts with a data
\* row and has no header, the first row is data: it gives the first band.
C7_FirstRowIsData ==
    (/\ pc = "parse_returned"
     /\ ~Falsy(eq_content)
     /\ HasOnlyLines(eq_content.doc, DataRows)
     /\ eq_content.doc[1] = R_PEAKING)
    => /\ parse_result.k = "success"
       /\ parse_result.bands[1].type = <<"0">>
       /\ parse_result.bands[1].freq = <<"1", "0", "0">>
       /\ Len(parse_result.bands) = Len(eq_content.doc)

C7_Witness ==
    /\ pc = "parse_returned"
    /\ eq_content = Content(<<R_PEAKING>>)
    /\ parse_result = Failure

\* The header-less numeric rows freq,q,gain, without and with a trailing column
NumericRows == {R_NUM3, R_NUM4}

\* C8: in a CSV document of header-less numeric rows freq,q,gain, with or
\* without trailing columns, every row gives a Peaking band with the
\* frequency of column 0, the Q of column 1 and the gain of column 2.
C8_NumericRowsArePeaking ==
    (/\ pc = "parse_returned"
     /\ ~Falsy(eq_content)
     /\ HasOnlyLines(eq_content.doc, NumericRows))
    => /\ parse_result.k = "success"
       /\ Len(parse_result.bands) = Len(eq_content.doc)
       /\ \A n \in DOMAIN parse_result.bands :
             SameBand(parse_result.bands[n], [type |-> <<"0">>, freq |-> <<"1", "0", "0">>, gain |-> <<"-", "3", ".", "2">>, q |-> <<"0", ".", "7">>])

C8_Witness ==
    /\ pc = "parse_returned"
    /\ eq_content = Content(<<R_NUM3>>)
    /\ parse_result = Failure

\* The value of the first whitespace-delimited token after the first colon
\* of a line that contains "preamp:", where that token is a number
Supplies(line) == line \in {L_PREAMP, L_PREAMP_TAB}

Supplied(line) ==
    CASE line = L_PREAMP     -> Float(<<"-", "6", ".", "0">>)
      [] line = L_PREAMP_TAB -> Float(<<"-", "4", ".", "7">>)

\* C9: a successful parse returns the value of the first line that
\* supplies a preamp, lines that fail being passed over, and 0.0 when no
\* line supplies one.
C9_FirstPreampWins ==
    (pc = "parse_returned" /\ parse_result.k = "success")
    => parse_result.preamp =
          IF SelectSeq(eq_content.doc, Supplies) = <<>> THEN Float(<<"0", ".", "0">>)
          ELSE Supplied(Head(SelectSeq(eq_content.doc, Supplies)))

C9_Witness ==
    /\ pc = "parse_returned"
    /\ eq_content = Content(<<L_PREAMP_TAB, L_PK>>)
    /\ parse_result.k = "success"
    /\ parse_result.preamp = Float(<<"0", ".", "0">>)

(***************************************************************************)
(* What the specification says of the serializer                           *)
(***************************************************************************)
Min(a, b) == IF a < b THEN a ELSE b

\* The four parameters of an <eq> element, by name
ParamsOf(band) == << <<"type", band.type>>, <<"freq", band.freq>>,
                     <<"gain", band.gain>>, <<"q", band.q>> >>

\* C4: a band list of length n serializes to exactly min(n, 10) eq
\* elements, indexed 0, 1, ... in emission order, the element of index i
\* carrying the type, freq, gain and q of the i-th band of the input; a
\* longer input is cut to its first 10 bands and still serialized.
C4_FirstTenBandsInOrder ==
    /\ Len(eq_list) <= 10
    /\ pc = "xml_returned"
         => /\ Len(xml_result.eqList) = Min(Len(arg_bands), 10)
            /\ \A n \in DOMAIN xml_result.eqList :
                  /\ xml_result.eqList[n].index = <<DIGITS[n]>>
                  /\ xml_result.eqList[n].params = ParamsOf(arg_bands[n])

C4_Witness ==
    /\ pc = "xml_returned"
    /\ Len(arg_bands) = 12
    /\ Len(xml_result.eqList) = 10
    /\ xml_result.eqList[10].index = <<"9">>
    /\ arg_bands[10] # arg_bands[11]

\* The default decimal string of each preamp value
DecimalString(value) ==
    CASE value = Fin(FALSE, 0, 0) -> <<"0", ".", "0">>
      [] value = Fin(TRUE, 47, 1) -> <<"-", "4", ".", "7">>
      [] value = Fin(TRUE, 6, 0)  -> <<"-", "6", ".", "0">>

TxtFile(name) ==
    CASE name = N_HD650 -> 
           <<"H", "D", "%", "2", "0", "6", "5", "0", "%", "2", "0", "P", "a", "r", "a", "m", "e", "t", "r", "i", "c", "E", "Q", ".", "t", "x", "t">>
      [] name = N_K701 -> 
           <<"K", "7", "0", "1", "%", "2", "0", "P", "a", "r", "a", "m", "e", "t", "r", "i", "c", "E", "Q", ".", "t", "x", "t">>
      [] name = N_DT770 -> 
           <<"D", "T", "%", "2", "0", "7", "7", "0", "%", "3", "A", "%", "2", "0", "8", "0", "%", "2", "0", "P", "a", "r", "a", "m", "e", "t", "r", "i", "c", "E", "Q", ".", "t", "x", "t">>

CsvFile == <<"P", "a", "r", "a", "m", "e", "t", "r", "i", "c", "E", "Q", ".", "c", "s", "v">>

\* The requests so far are the .txt URL, or the .txt URL and then the .csv URL
InFixedOrder(sent) ==
    /\ Len(sent) <= 2
    /\ Len(sent) >= 1 => sent[1] = <<BASE_RAW_URL, headphone_path, TxtFile(selected_name)>>
    /\ Len(sent) = 2 => sent[2] = <<BASE_RAW_URL, headphone_path, CsvFile>>

\* C10: at most two requests, the .txt URL first and the .csv URL only
\* after the .txt request failed with HTTP 404; any other failure of the
\* .txt request returns None and a successful one returns its text, both
\* without a request for the CSV; no URL is requested twice.
C10_TxtThenCsvOn404 ==
    /\ [](/\ InFixedOrder(requests_sent)
          /\ Len(requests_sent) = 2 => requests_sent[1] # requests_sent[2]
          /\ pc = "txt_response" => Len(requests_sent) = 1
          /\ (pc = "fetched" /\ Len(requests_sent) = 1)
               => /\ ~(response.k = "HTTPError" /\ response.status_code = 404)
                  /\ fetch_result = IF response.k = "ok" THEN Fetched(response.text)
                                    ELSE FetchedNone
          /\ (pc = "fetched" /\ Len(requests_sent) = 2)
               => fetch_result = IF response.k = "ok" THEN Fetched(response.text)
                                 ELSE FetchedNone)
    /\ [][Len(requests_sent') > Len(requests_sent)
            => \/ requests_sent = <<>>
               \/ /\ Len(requests_sent) = 1
                  /\ pc = "txt_response"
                  /\ response.k = "HTTPError"
                  /\ response.status_code = 404]_vars

C10_Witness ==
    /\ pc = "fetched"
    /\ selected_name = N_DT770
    /\ Len(requests_sent) = 2
    /\ requests_sent[2][3] = CsvFile
    /\ fetch_result = Fetched("Preamp: -6.0 dB")

(***************************************************************************)
(* What is said of the cache of fetch_index                                *)
(***************************************************************************)
\* The texts the server serves together with an ETag
ServedWith(etag) == {v.content : v \in {w \in Versions : w.etag = etag}}

\* C11: after any sequence of runs over a cache that was empty at first,
\* whenever the ETag file exists the index file exists too and holds the
\* text the server served with that ETag, and a run that answers from the
\* cache after a 304 returns the text the server has.
C11_EtagFileMatchesIndexFile ==
    pc = "index_returned"
    => /\ etag_file.exists
            => /\ index_file.exists
               /\ index_file.text \in ServedWith(etag_file.text)
       /\ index_result.k = "cached" => index_result.text = server.content

C11_Witness ==
    /\ pc = "index_returned"
    /\ server = FirstVersion
    /\ index_response.status_code = 304
    /\ etag_file = File(<<"E", "1">>)
    /\ index_file = File(<<>>)
    /\ index_result = Returned("cached", <<>>)

====
